---- MODULE Spec2Model ----
(***************************************************************************)
(* beout/terminal.py: NewLineManager (the line sink), Substeps, the        *)
(* DotterThread / EtaThread background writers with their managers, the    *)
(* scrollers, and the TerminalWriter facade.                               *)
(*                                                                         *)
(* Text is a sequence of one-character strings.  The main flow and every   *)
(* background thread are agents with a list of pending statements (todo);  *)
(* each step of an agent performs at most one access to state another      *)
(* agent can touch (the destination, the line-start flag, the pending      *)
(* line, a stop event, a thread's _last_printed / _elapsed).               *)
(***************************************************************************)
EXTENDS Integers, Sequences, FiniteSets, TLC

\* ---------------------------------------------------------------- bounds
\* public operations called by the main flow in one run
MaxOps == 3
\* loop iterations a background thread performs before it sleeps for good
MaxTicks == 1
\* largest argument given to substeps(n)
MaxSteps == 2
\* switches away from an agent that could have gone on (the interpreter
\* taking the GIL from it between two statements) in one run
MaxPreempt == 1
\* calls of the yielded push function inside one scroll_lines block
MaxPushes == 2

\* ------------------------------------------------------------ characters
ESC == "ESC"
NL == "\n"
CR == "\r"
SP == " "

\* ' ' * n
Spaces(n) == [i \in 1 .. n |-> " "]

RECURSIVE Repeat(_, _)
\* c * n
Repeat(c, n) == IF n <= 0 THEN <<>> ELSE <<c>> \o Repeat(c, n - 1)

Digit == <<"0", "1", "2", "3", "4", "5", "6", "7", "8", "9">>

RECURSIVE Str(_)
\* '%s' % n, '%d' % n for an integer n
Str(n) ==
  IF n < 0 THEN <<"-">> \o Str(0 - n)
  ELSE IF n < 10 THEN <<Digit[n + 1]>>
  ELSE Str(n \div 10) \o <<Digit[(n % 10) + 1]>>

\* index of the first "m" of s at or after position i, 0 when there is none
RECURSIVE FirstM(_, _)
FirstM(s, i) ==
  IF i > Len(s) THEN 0
  ELSE IF s[i] = "m" THEN i
  ELSE FirstM(s, i + 1)

\* ansi_escape.sub('', text) with ansi_escape = \x1b[^m]*m: strip[i] is the
\* result for text[i:] (i is 1-based here).  A match is ESC up to the first
\* "m" after it; an ESC with no "m" after it is kept.
strip_ansi(text) ==
  LET strip[i \in 1 .. Len(text) + 1] ==
        IF i > Len(text) THEN <<>>
        ELSE IF text[i] = ESC
          THEN LET k == FirstM(text, i + 1)
               IN IF k = 0 THEN <<ESC>> \o strip[i + 1]
                  ELSE strip[k + 1]
          ELSE <<text[i]>> \o strip[i + 1]
  IN strip[1]

\* termcolor.colored(text, color): '\033[%dm%s\033[0m'
colored(text) == <<ESC, "[", "3", "m">> \o text \o <<ESC, "[", "0", "m">>

\* humanize.naturaltime(value, future) as used for the ETA suffix
naturaltime(value, future) ==
  IF value = 0 THEN <<"now">>
  ELSE IF future THEN <<"from now">>
  ELSE <<"ago">>

\* humanize.naturaldelta(seconds) as used for the finished suffix
naturaldelta(seconds) ==
  IF seconds = 0 THEN <<"a moment">>
  ELSE IF seconds = 1 THEN <<"a second">>
  ELSE Str(seconds) \o <<" seconds">>

\* -------------------------------------------------------- NewLineManager
\* The sink is [fd, nl, line, log]: what context.fd has been given, the
\* flag _are_we_on_new_line, the pending _line, and the calls of
\* _logger.info.  Each statement of write / new_line is one operator.

\* NewLineManager.__init__ on a fresh destination
NewLineManager_init == [fd |-> <<>>, nl |-> TRUE, line |-> <<>>, log |-> <<>>]

\* write never stripping
write_strip_never(tty, s) == s

\* if not self.context.isatty: s = strip_ansi(s)
write_strip(tty, s) == IF tty THEN s ELSE strip_ansi(s)

\* self.context.fd.write(s)
fd_write(sk, s) == [sk EXCEPT !.fd = @ \o s]

\* self._are_we_on_new_line = False
write_flag(sk) == [sk EXCEPT !.nl = FALSE]

\* self._line += s, the store half: v is the value computed from the load
write_store(sk, v) == [sk EXCEPT !.line = v]

\* new_line leaving the flag as it was
new_line_flag_kept(sk) == sk

\* self._are_we_on_new_line = True
new_line_flag(sk) == [sk EXCEPT !.nl = TRUE]

\* self._logger.info(strip_ansi(self._line))
new_line_log(sk) == [sk EXCEPT !.log = Append(@, strip_ansi(sk.line))]

\* self._line = ''
new_line_clear(sk) == [sk EXCEPT !.line = <<>>]

\* new_line not looking at the flag
new_line_test_always(sk, force) == TRUE

\* if force or not self._are_we_on_new_line
new_line_test(sk, force) == force \/ ~sk.nl

\* NewLineManager.write run without interruption
NewLineManager_write(sk, tty, s) ==
  IF Len(s) > 0
    THEN LET o == write_strip(tty, s)
             a == write_flag(fd_write(sk, o))
         IN write_store(a, a.line \o o)
    ELSE sk

\* NewLineManager.new_line run without interruption
NewLineManager_new_line(sk, force, skip_log) ==
  IF new_line_test(sk, force)
    THEN LET a == new_line_flag(fd_write(sk, <<NL>>))
             b == IF skip_log THEN a ELSE new_line_log(a)
         IN new_line_clear(b)
    ELSE sk

RECURSIVE LastLine(_)
\* what fd holds after its last '\n' (all of it when it holds none)
LastLine(fd) ==
  IF fd = <<>> THEN <<>>
  ELSE IF fd[Len(fd)] = NL THEN <<>>
  ELSE Append(LastLine(SubSeq(fd, 1, Len(fd) - 1)), fd[Len(fd)])

\* The destination and the logger are observed from the start of the
\* current public call: of what was written before it, fd keeps the
\* current line (with the '\n' before it, if any) and log keeps nothing.
Observe(sk) ==
  LET cur == LastLine(sk.fd)
  IN [sk EXCEPT !.fd = (IF Len(cur) < Len(sk.fd) THEN <<NL>> ELSE <<>>) \o cur,
                !.log = <<>>]

\* --------------------------------------------------------------- Substeps
\* Substeps.__init__ and Substeps.reset
Substeps_reset == [current |-> 0, steps |-> -1]

\* Substeps.start
Substeps_start(n) == [current |-> 1, steps |-> n]

\* Substeps.str: the returned label
Substeps_str(ss) ==
  IF ss.current > ss.steps THEN <<>>
  ELSE colored(<<"(">> \o Str(ss.current) \o <<"/">> \o Str(ss.steps) \o <<")", SP>>)

\* Substeps.str without self.current += 1
Substeps_str_stuck(ss) == ss

\* Substeps.str: the state it leaves
Substeps_str_next(ss) ==
  IF ss.current > ss.steps THEN ss
  ELSE [ss EXCEPT !.current = @ + 1]

\* ------------------------------------------------------------------ state
VARIABLES
  isatty,      \* Context.isatty
  sink,        \* the NewLineManager with its destination and logger
  substeps,    \* TerminalWriter._substeps
  dotter,      \* Dotter.thread: a thread number, 0 for None
  eta_thread,  \* Eta.thread: a thread number, 0 for None
  thr,         \* every thread object created so far, in creation order
  todo,        \* todo[0]: statements the main flow still has to run in the
               \* current public call; todo[t]: those of thread t
  scroll,      \* the scroller of the open scroll_lines block
  call,        \* the public call in progress or last returned
  nops,        \* public calls made so far
  sched        \* the scheduler: the agent that ran last, preemptions so far

vars == <<isatty, sink, substeps, dotter, eta_thread, thr, todo, scroll, call, nops, sched>>

\* ----------------------------------------------------------- statements
\* A pending statement: op names it, s is its text, force/skip the
\* new_line arguments, t a thread number or an integer argument.
Ins(op, s, force, skip, t) == [op |-> op, s |-> s, force |-> force, skip |-> skip, t |-> t]
I(op) == Ins(op, <<>>, FALSE, FALSE, 0)
IS(op, s) == Ins(op, s, FALSE, FALSE, 0)
IT(op, t) == Ins(op, <<>>, FALSE, FALSE, t)

Agents == DOMAIN todo
Busy(a) == todo[a] # <<>>
At(a, op) == Busy(a) /\ Head(todo[a]).op = op
Cur(a) == Head(todo[a])
\* the agent's list with its first statement replaced by the statements seq
Then(a, seq) == [todo EXCEPT ![a] = seq \o Tail(@)]
Pop(a) == Then(a, <<>>)

\* Agent r gives up the processor by itself: it has returned (the main
\* flow to its caller, a thread from run) or it is in time.sleep.
Yields(r) ==
  \/ ~Busy(r)
  \/ At(r, "t_sleep")
  \/ At(r, "t_check") /\ ~thr[r].stop /\ thr[r].ticks >= MaxTicks

\* Agent a takes the next step: any agent may when the one that ran last
\* yields, otherwise switching to another agent is a preemption.
Run(a) ==
  LET r == sched.running
      preempt == a # r /\ ~Yields(r)
  IN /\ preempt => sched.preempts < MaxPreempt
     /\ sched' = [running |-> a, preempts |-> sched.preempts + (IF preempt THEN 1 ELSE 0)]

\* the statements of context.out.write(s)
WriteOps(s) ==
  IF Len(s) > 0
    THEN LET o == write_strip(isatty, s)
         IN <<IS("w_emit", o), I("w_flag"), IS("w_load", o)>>
    ELSE <<>>

\* the statements of context.out.new_line(force, skip_log)
NewLineOps(force, skip_log) == <<Ins("n_test", <<>>, force, skip_log, 0)>>

\* the statements of EtaThread._write(suffix) on thread t
EtaWriteOps(t, suffix) ==
  <<IT("x_blank", t), Ins("x_set", suffix, FALSE, FALSE, t), IT("x_print", t)>>

\* ------------------------------------------------- NewLineManager steps
\* write: self.context.fd.write(s)
Write_emit(a) ==
  /\ At(a, "w_emit") /\ Run(a)
  /\ sink' = fd_write(sink, Cur(a).s)
  /\ todo' = Pop(a)
  /\ UNCHANGED <<isatty, substeps, dotter, eta_thread, thr, scroll, call, nops>>

\* write: self._are_we_on_new_line = False
Write_flag(a) ==
  /\ At(a, "w_flag") /\ Run(a)
  /\ sink' = write_flag(sink)
  /\ todo' = Pop(a)
  /\ UNCHANGED <<isatty, substeps, dotter, eta_thread, thr, scroll, call, nops>>

\* write: self._line += s, reading self._line
Write_load(a) ==
  /\ At(a, "w_load") /\ Run(a)
  /\ todo' = Then(a, <<IS("w_store", sink.line \o Cur(a).s)>>)
  /\ UNCHANGED <<isatty, sink, substeps, dotter, eta_thread, thr, scroll, call, nops>>

\* write: self._line += s, storing the sum
Write_store(a) ==
  /\ At(a, "w_store") /\ Run(a)
  /\ sink' = write_store(sink, Cur(a).s)
  /\ todo' = Pop(a)
  /\ UNCHANGED <<isatty, substeps, dotter, eta_thread, thr, scroll, call, nops>>

\* new_line: if force or not self._are_we_on_new_line
NewLine_test(a) ==
  /\ At(a, "n_test") /\ Run(a)
  /\ todo' = IF new_line_test(sink, Cur(a).force)
               THEN Then(a, <<I("n_emit"), I("n_flag")>>
                            \o (IF Cur(a).skip THEN <<>> ELSE <<I("n_log")>>)
                            \o <<I("n_clear")>>)
               ELSE Pop(a)
  /\ UNCHANGED <<isatty, sink, substeps, dotter, eta_thread, thr, scroll, call, nops>>

\* new_line: self.context.fd.write('\n')
NewLine_emit(a) ==
  /\ At(a, "n_emit") /\ Run(a)
  /\ sink' = fd_write(sink, <<NL>>)
  /\ todo' = Pop(a)
  /\ UNCHANGED <<isatty, substeps, dotter, eta_thread, thr, scroll, call, nops>>

\* new_line: self._are_we_on_new_line = True
NewLine_flag(a) ==
  /\ At(a, "n_flag") /\ Run(a)
  /\ sink' = new_line_flag(sink)
  /\ todo' = Pop(a)
  /\ UNCHANGED <<isatty, substeps, dotter, eta_thread, thr, scroll, call, nops>>

\* new_line: self._logger.info(strip_ansi(self._line))
NewLine_log(a) ==
  /\ At(a, "n_log") /\ Run(a)
  /\ sink' = new_line_log(sink)
  /\ todo' = Pop(a)
  /\ UNCHANGED <<isatty, substeps, dotter, eta_thread, thr, scroll, call, nops>>

\* new_line: self._line = ''
NewLine_clear(a) ==
  /\ At(a, "n_clear") /\ Run(a)
  /\ sink' = new_line_clear(sink)
  /\ todo' = Pop(a)
  /\ UNCHANGED <<isatty, substeps, dotter, eta_thread, thr, scroll, call, nops>>

\* ------------------------------------------------------- thread objects
\* DotterThread.__init__ / EtaThread.__init__: the fields of a new thread.
\* ticks counts the iterations of run (the bound MaxTicks reads it).
NewThread(kind, line, seconds) ==
  [kind |-> kind, stop |-> FALSE, line |-> line, eta |-> seconds,
   elapsed |-> 0, last |-> <<>>, ticks |-> 0]

\* A thread object that has returned from run and that no manager refers
\* to any more: only its kind and its stop event are kept.
Dead(rec) == [NewThread(rec.kind, <<>>, 0) EXCEPT !.stop = rec.stop]

\* thread.start(): the new thread begins at the loop test of run
Started ==
  [a \in 0 .. Len(thr) + 1 |->
     IF a = Len(thr) + 1 THEN <<I("t_check")>>
     ELSE IF a = 0 THEN Tail(todo[0])
     ELSE todo[a]]

\* the stop event read as never set
is_set_never(rec) == FALSE

\* self._stop.is_set()
is_set(rec) == rec.stop

\* DotterThread.run: while not self._stop.is_set(), then the write
DotterThread_run(t) ==
  /\ t # 0
  /\ At(t, "t_check") /\ Run(t) /\ thr[t].kind = "dot"
  /\ is_set(thr[t]) \/ thr[t].ticks < MaxTicks
  /\ todo' = IF is_set(thr[t]) THEN Pop(t)
             ELSE Then(t, WriteOps(colored(<<".">>)) \o <<I("t_sleep")>>)
  /\ thr' = IF is_set(thr[t]) THEN [thr EXCEPT ![t] = Dead(@)] ELSE thr
  /\ UNCHANGED <<isatty, sink, substeps, dotter, eta_thread, scroll, call, nops>>

\* DotterThread.run: time.sleep(self._interval_seconds), back to the test
DotterThread_sleep(t) ==
  /\ t # 0
  /\ At(t, "t_sleep") /\ Run(t) /\ thr[t].kind = "dot"
  /\ thr' = [thr EXCEPT ![t].ticks = @ + 1]
  /\ todo' = Then(t, <<I("t_check")>>)
  /\ UNCHANGED <<isatty, sink, substeps, dotter, eta_thread, scroll, call, nops>>

\* EtaThread.run: while not self._stop.is_set(), eta, then self._write(...)
EtaThread_run(t) ==
  /\ t # 0
  /\ At(t, "t_check") /\ Run(t) /\ thr[t].kind = "eta"
  /\ is_set(thr[t]) \/ thr[t].ticks < MaxTicks
  /\ todo' = IF is_set(thr[t]) THEN Pop(t)
             ELSE LET eta == thr[t].eta - thr[t].elapsed
                  IN Then(t, EtaWriteOps(t, colored(<<"(ETA: ">> \o naturaltime(eta, eta > 0) \o <<")">>))
                             \o <<I("t_sleep")>>)
  /\ thr' = IF is_set(thr[t]) /\ eta_thread # t THEN [thr EXCEPT ![t] = Dead(@)] ELSE thr
  /\ UNCHANGED <<isatty, sink, substeps, dotter, eta_thread, scroll, call, nops>>

\* EtaThread.run: time.sleep(1); self._elapsed += 1, back to the test
EtaThread_sleep(t) ==
  /\ t # 0
  /\ At(t, "t_sleep") /\ Run(t) /\ thr[t].kind = "eta"
  /\ thr' = [thr EXCEPT ![t].elapsed = @ + 1, ![t].ticks = @ + 1]
  /\ todo' = Then(t, <<I("t_check")>>)
  /\ UNCHANGED <<isatty, sink, substeps, dotter, eta_thread, scroll, call, nops>>

\* EtaThread._write: the blanking write, reading self._last_printed
EtaThread_write_blank(a) ==
  /\ At(a, "x_blank") /\ Run(a)
  /\ todo' = Then(a, WriteOps(<<CR>> \o Spaces(Len(strip_ansi(thr[Cur(a).t].last))) \o <<CR>>))
  /\ UNCHANGED <<isatty, sink, substeps, dotter, eta_thread, thr, scroll, call, nops>>

\* EtaThread._write: self._last_printed = self._line + ' ' + suffix
EtaThread_write_set(a) ==
  /\ At(a, "x_set") /\ Run(a)
  /\ thr' = [thr EXCEPT ![Cur(a).t].last = thr[Cur(a).t].line \o <<SP>> \o Cur(a).s]
  /\ todo' = Pop(a)
  /\ UNCHANGED <<isatty, sink, substeps, dotter, eta_thread, scroll, call, nops>>

\* EtaThread._write: self.context.out.write(self._last_printed)
EtaThread_write_print(a) ==
  /\ At(a, "x_print") /\ Run(a)
  /\ todo' = Then(a, WriteOps(thr[Cur(a).t].last))
  /\ UNCHANGED <<isatty, sink, substeps, dotter, eta_thread, thr, scroll, call, nops>>

\* ------------------------------------------------------ Dotter and Eta
\* Dotter.reset: stop() only sets the event
Dotter_reset ==
  /\ At(0, "d_reset") /\ Run(0)
  /\ IF dotter # 0
       THEN /\ thr' = [thr EXCEPT ![dotter].stop = TRUE]
            /\ dotter' = 0
       ELSE UNCHANGED <<thr, dotter>>
  /\ todo' = Pop(0)
  /\ UNCHANGED <<isatty, sink, substeps, eta_thread, scroll, call, nops>>

\* Dotter.start after its reset: a new DotterThread is made and started
Dotter_start ==
  /\ At(0, "d_create") /\ Run(0)
  /\ thr' = Append(thr, NewThread("dot", <<>>, 0))
  /\ dotter' = Len(thr) + 1
  /\ todo' = Started
  /\ UNCHANGED <<isatty, sink, substeps, eta_thread, scroll, call, nops>>

\* Eta.reset: the test, and EtaThread.stop's self._stop.set()
Eta_reset ==
  /\ At(0, "e_reset") /\ Run(0)
  /\ IF eta_thread # 0
       THEN /\ thr' = [thr EXCEPT ![eta_thread].stop = TRUE]
            /\ todo' = Then(0, <<IT("e_fin", eta_thread), I("e_clear")>>)
       ELSE /\ todo' = Pop(0)
            /\ UNCHANGED thr
  /\ UNCHANGED <<isatty, sink, substeps, dotter, eta_thread, scroll, call, nops>>

\* EtaThread.stop: the finished suffix from self._elapsed, then self._write
EtaThread_stop ==
  /\ At(0, "e_fin") /\ Run(0)
  /\ LET t == Cur(0).t
     IN todo' = Then(0, EtaWriteOps(t, colored(<<"(Finished in ">> \o naturaldelta(thr[t].elapsed) \o <<")">>)))
  /\ UNCHANGED <<isatty, sink, substeps, dotter, eta_thread, thr, scroll, call, nops>>

\* Eta.reset: self.thread = None
Eta_clear ==
  /\ At(0, "e_clear") /\ Run(0)
  /\ eta_thread' = 0
  /\ thr' = IF ~Busy(eta_thread) THEN [thr EXCEPT ![eta_thread] = Dead(@)] ELSE thr
  /\ todo' = Pop(0)
  /\ UNCHANGED <<isatty, sink, substeps, dotter, scroll, call, nops>>

\* Eta.start after its reset: a new EtaThread is made and started
Eta_start ==
  /\ At(0, "e_create") /\ Run(0)
  /\ thr' = Append(thr, NewThread("eta", Cur(0).s, Cur(0).t))
  /\ eta_thread' = Len(thr) + 1
  /\ todo' = Started
  /\ UNCHANGED <<isatty, sink, substeps, dotter, scroll, call, nops>>

\* -------------------------------------------------------- TerminalWriter
\* texts the caller passes to box, msg and eta
Texts == {<<"x">> \o colored(<<"y">>)}

\* datetime.now().strftime('%H:%M:%S'), one token for the eight characters
Now == <<"HH:MM:SS">>

\* TerminalWriter._timestamp
TerminalWriter_timestamp == colored(<<"[">>) \o colored(Now) \o colored(<<"]">>)

\* TerminalWriter.line: the returned text
TerminalWriter_line(ss, text) == TerminalWriter_timestamp \o <<SP>> \o Substeps_str(ss) \o text

\* the text box() writes; "+", "-" and "|" stand for the box-drawing characters
BoxText(text) ==
  LET stripped == strip_ansi(text)
  IN colored(<<"+">> \o Repeat("-", Len(stripped) + 2) \o <<"+">>)
     \o <<NL>> \o colored(<<"|", SP>>) \o text \o colored(<<SP, "|">>)
     \o <<NL>> \o colored(<<"+">> \o Repeat("-", Len(stripped) + 2) \o <<"+">>)

\* the main flow is between public calls
Idle == todo[0] = <<>>
CanCall == Idle /\ nops < MaxOps

\* the frame of a public call: its name, the flag and the number of mirrored
\* lines when it began, and the scroller that was open
Frame(op, sk) == [op |-> op, nl0 |-> sk.nl, log0 |-> Len(sk.log), kind |-> scroll.kind]

\* the main flow starts a public call with the statements seq
Calls(op, seq) ==
  /\ todo' = [todo EXCEPT ![0] = seq]
  /\ call' = Frame(op, sink')
  /\ nops' = nops + 1

\* TerminalWriter.box
box(text) ==
  /\ CanCall /\ Run(0) /\ scroll.kind = "none"
  /\ sink' = Observe(sink)
  /\ substeps' = Substeps_reset
  /\ Calls("box", <<I("d_reset"), I("e_reset")>> \o NewLineOps(FALSE, FALSE) \o WriteOps(BoxText(text)))
  /\ UNCHANGED <<isatty, dotter, eta_thread, thr, scroll>>

\* TerminalWriter.msg
msg(text) ==
  /\ CanCall /\ Run(0) /\ scroll.kind = "none"
  /\ sink' = Observe(sink)
  /\ Calls("msg", <<I("d_reset"), I("e_reset")>> \o NewLineOps(FALSE, FALSE) \o <<IS("m_line", text)>>)
  /\ UNCHANGED <<isatty, substeps, dotter, eta_thread, thr, scroll>>

\* TerminalWriter.msg: self._context.out.write(self.line(text))
msg_line ==
  /\ At(0, "m_line") /\ Run(0)
  /\ todo' = Then(0, WriteOps(TerminalWriter_line(substeps, Cur(0).s)))
  /\ substeps' = Substeps_str_next(substeps)
  /\ UNCHANGED <<isatty, sink, dotter, eta_thread, thr, scroll, call, nops>>

\* TerminalWriter.eta
eta(text, seconds) ==
  /\ CanCall /\ Run(0) /\ scroll.kind = "none"
  /\ sink' = Observe(sink)
  /\ Calls("eta", <<I("d_reset"), I("e_reset")>> \o NewLineOps(FALSE, FALSE)
                  \o <<Ins("eta_line", text, FALSE, FALSE, seconds)>>)
  /\ UNCHANGED <<isatty, substeps, dotter, eta_thread, thr, scroll>>

\* TerminalWriter.eta: self._eta.start(self.line(text), seconds)
eta_line ==
  /\ At(0, "eta_line") /\ Run(0)
  /\ todo' = Then(0, <<I("e_reset"),
                       Ins("e_create", TerminalWriter_line(substeps, Cur(0).s), FALSE, FALSE, Cur(0).t)>>)
  /\ substeps' = Substeps_str_next(substeps)
  /\ UNCHANGED <<isatty, sink, dotter, eta_thread, thr, scroll, call, nops>>

\* arguments the caller gives substeps()
StepCounts == {2}

\* TerminalWriter.substeps
set_substeps(n) ==
  /\ CanCall /\ Run(0) /\ scroll.kind = "none"
  /\ sink' = Observe(sink)
  /\ substeps' = Substeps_start(n)
  /\ Calls("substeps", <<>>)
  /\ UNCHANGED <<isatty, dotter, eta_thread, thr, scroll>>

\* TerminalWriter.progress_dot_every_n_seconds
progress_dot_every_n_seconds ==
  /\ CanCall /\ Run(0) /\ scroll.kind = "none"
  /\ sink' = Observe(sink)
  /\ Calls("progress_dot", <<I("d_reset"), I("d_create")>>)
  /\ UNCHANGED <<isatty, substeps, dotter, eta_thread, thr, scroll>>

\* the statements of TerminalWriter.done after its substeps reset
DoneOps == <<I("d_reset"), I("e_reset")>> \o NewLineOps(FALSE, FALSE)

\* TerminalWriter.done
done ==
  /\ CanCall /\ Run(0) /\ scroll.kind = "none"
  /\ sink' = Observe(sink)
  /\ substeps' = Substeps_reset
  /\ Calls("done", DoneOps)
  /\ UNCHANGED <<isatty, dotter, eta_thread, thr, scroll>>

\* -------------------------------------------------------------- scrollers
\* console widths _get_console_width reads from stty
Widths == {2}

\* texts the caller pushes into a scroll block
PushTexts == {<<"a">>, <<"b", "c", "d">>}

\* line counts the caller asks scroll_lines for
LineCounts == {-1, 0, 2}

RECURSIVE SplitNL(_, _)
\* txt.split('\n'): acc is the piece being read
SplitNL(txt, acc) ==
  IF txt = <<>> THEN <<acc>>
  ELSE IF Head(txt) = NL THEN <<acc>> \o SplitNL(Tail(txt), <<>>)
  ELSE SplitNL(Tail(txt), Append(acc, Head(txt)))

\* lines.insert(i, x) putting x at the end
Insert_append(lines, i, x) == Append(lines, x)

\* lines.insert(i, x)
Insert(lines, i, x) == SubSeq(lines, 1, i - 1) \o <<x>> \o SubSeq(lines, i, Len(lines))

RECURSIVE BreakLoop(_, _, _)
\* the while loop of _split_and_break_into_lines; i is 1-based here
BreakLoop(lines, i, width) ==
  IF i > Len(lines) THEN lines
  ELSE LET line == lines[i]
       IN IF Len(line) > width
            THEN BreakLoop(Insert([lines EXCEPT ![i] = SubSeq(line, width + 1, Len(line))],
                                  i, SubSeq(line, 1, width)),
                           i + 1, width)
            ELSE BreakLoop(lines, i + 1, width)

\* one iteration of the while loop of _split_and_break_into_lines: the
\* lines it leaves; i is 1-based here
BreakStep(lines, i, width) ==
  LET line == lines[i]
  IN IF Len(line) > width
       THEN Insert([lines EXCEPT ![i] = SubSeq(line, width + 1, Len(line))], i, SubSeq(line, 1, width))
       ELSE lines

\* ScrollOutput._split_and_break_into_lines
split_and_break_into_lines(txt, width) == BreakLoop(SplitNL(txt, <<>>), 1, width)

\* lines[-n:] keeping every line
LastN_all(lines, n) == lines

\* lines[-n:]
LastN(lines, n) ==
  IF n > 0 THEN SubSeq(lines, (IF Len(lines) > n THEN Len(lines) - n + 1 ELSE 1), Len(lines))
  ELSE IF n = 0 THEN lines
  ELSE SubSeq(lines, 1 - n, Len(lines))

\* ScrollOutput._move_to_top with _move_cursor_up: written to fd directly
MoveToTopOps(lines) ==
  IF Len(lines) > 0
    THEN <<IS("f_emit", <<ESC, "[">> \o Str(Len(lines)) \o <<"A">>)>>
    ELSE <<>>

RECURSIVE RedrawOps(_, _, _)
\* the for loop of ScrollOutput.write from row i on
RedrawOps(old, new, i) ==
  IF i > Len(new) THEN <<>>
  ELSE (IF Len(old) >= i THEN WriteOps(Spaces(Len(old[i])) \o <<CR>>) ELSE <<>>)
       \o WriteOps(new[i])
       \o NewLineOps(TRUE, TRUE)
       \o RedrawOps(old, new, i + 1)

\* ScrollOutput.write: the lines it will keep
ScrollOutput_new_lines(sc, txt, width) ==
  LastN(sc.lines \o split_and_break_into_lines(txt, width), sc.line_count)

\* ScrollOutput.write
ScrollOutput_write(sc, txt, width) ==
  LET new_lines == ScrollOutput_new_lines(sc, txt, width)
  IN MoveToTopOps(sc.lines) \o RedrawOps(sc.lines, new_lines, 1) \o <<IS("sc_set", new_lines)>>

RECURSIVE BlankOps(_, _)
\* the for loop of ScrollOutput.start after the yield
BlankOps(lines, i) ==
  IF i > Len(lines) THEN <<>>
  ELSE WriteOps(<<CR>> \o Spaces(Len(lines[i]))) \o NewLineOps(TRUE, TRUE) \o BlankOps(lines, i + 1)

\* ScrollOutput.start after the yield
ScrollOutput_exit(sc) ==
  (IF sc.clear
     THEN MoveToTopOps(sc.lines) \o BlankOps(sc.lines, 1) \o MoveToTopOps(sc.lines)
     ELSE <<>>)
  \o NewLineOps(FALSE, FALSE)

\* The scroller of the open block: its kind, _lines, _line_count and the
\* argument of start.  Four more fields record the session for the
\* properties: asked is the n given to scroll_lines, pushes counts the calls
\* of the yielded function, pushed holds every wrapped line given to
\* ScrollOutput.write so far, entry how much the destination had received
\* when start yielded.
NoScroll ==
  [kind |-> "none", lines |-> <<>>, line_count |-> 0, clear |-> FALSE,
   asked |-> 0, pushes |-> 0, pushed |-> <<>>, entry |-> 0]

\* scroll_lines testing n == 0 before the destination
Scroller_zero_first(n, tty) ==
  IF n = 0 THEN "devnull"
  ELSE IF n = -1 \/ ~tty THEN "dont"
  ELSE "scroll"

\* TerminalWriter.scroll_lines: the scroller it picks
Scroller(n, tty) ==
  IF n = -1 \/ ~tty THEN "dont"
  ELSE IF n = 0 THEN "devnull"
  ELSE "scroll"

\* ScrollOutput.__init__ with the argument of start; DontScrollOutput and
\* DevNullScroller keep neither the line count nor the argument
NewScroller(kind, n, clear) ==
  IF kind = "scroll"
    THEN [NoScroll EXCEPT !.kind = kind, !.asked = n, !.line_count = n, !.clear = clear]
    ELSE [NoScroll EXCEPT !.kind = kind, !.asked = n]

\* TerminalWriter.scroll_lines and the entry of the with block
scroll_lines(n, clear_and_overwrite_after) ==
  /\ CanCall /\ Run(0) /\ scroll.kind = "none"
  /\ sink' = Observe(sink)
  /\ substeps' = Substeps_reset
  /\ scroll' = NewScroller(Scroller(n, isatty), n, clear_and_overwrite_after)
  /\ Calls("scroll_lines",
           DoneOps \o (IF Scroller(n, isatty) = "scroll" THEN NewLineOps(FALSE, FALSE) ELSE <<>>)
                   \o <<I("sc_yield")>>)
  /\ UNCHANGED <<isatty, dotter, eta_thread, thr>>

\* start of ScrollOutput, DontScrollOutput or DevNullScroller: yield
\* self.write, the body of the with block begins
scroll_yield ==
  /\ At(0, "sc_yield") /\ Run(0)
  /\ scroll' = IF scroll.kind = "scroll" THEN [scroll EXCEPT !.entry = Len(sink.fd)] ELSE scroll
  /\ todo' = Pop(0)
  /\ UNCHANGED <<isatty, sink, substeps, dotter, eta_thread, thr, call, nops>>

\* the statements of the yielded function: ScrollOutput.write,
\* DontScrollOutput.write or DevNullScroller.write
PushOps(sc, txt, width) ==
  IF sc.kind = "scroll" THEN ScrollOutput_write(sc, txt, width)
  ELSE IF sc.kind = "dont" THEN WriteOps(txt \o <<NL>>)
  ELSE <<>>

\* the frame of a call of the yielded function: as Frame, with the text
\* pushed and how much the destination had received when it began
PushFrame(txt) ==
  [op |-> "push", nl0 |-> sink.nl, log0 |-> Len(sink.log), kind |-> scroll.kind,
   txt |-> txt, fd0 |-> Len(sink.fd)]

\* the body of the with block calls the yielded function
scroll_push(txt, width) ==
  /\ Idle /\ Run(0) /\ scroll.kind # "none" /\ scroll.pushes < MaxPushes
  /\ sink' = sink
  /\ todo' = [todo EXCEPT ![0] = PushOps(scroll, txt, width)]
  /\ call' = PushFrame(txt)
  /\ scroll' = [scroll EXCEPT
                  !.pushes = @ + 1,
                  !.pushed = IF scroll.kind = "scroll"
                               THEN @ \o split_and_break_into_lines(txt, width)
                               ELSE @]
  /\ UNCHANGED <<isatty, substeps, dotter, eta_thread, thr, nops>>

\* ScrollOutput.write: self._lines = new_lines
ScrollOutput_set_lines ==
  /\ At(0, "sc_set") /\ Run(0)
  /\ scroll' = [scroll EXCEPT !.lines = Cur(0).s]
  /\ todo' = Pop(0)
  /\ UNCHANGED <<isatty, sink, substeps, dotter, eta_thread, thr, call, nops>>

\* ScrollOutput._move_cursor_up: self.context.fd.write('\033[%dA' % n)
ScrollOutput_move_cursor_up ==
  /\ At(0, "f_emit") /\ Run(0)
  /\ sink' = fd_write(sink, Cur(0).s)
  /\ todo' = Pop(0)
  /\ UNCHANGED <<isatty, substeps, dotter, eta_thread, thr, scroll, call, nops>>

\* the with block is left normally: the code after the yield runs
scroll_exit ==
  /\ CanCall /\ Run(0) /\ scroll.kind # "none"
  /\ sink' = sink
  /\ Calls("scroll_exit",
           (IF scroll.kind = "scroll" THEN ScrollOutput_exit(scroll) ELSE <<>>) \o <<I("sc_end")>>)
  /\ UNCHANGED <<isatty, substeps, dotter, eta_thread, thr, scroll>>

\* the generator of start returns: the with statement is over
scroll_end ==
  /\ At(0, "sc_end") /\ Run(0)
  /\ scroll' = NoScroll
  /\ todo' = Pop(0)
  /\ UNCHANGED <<isatty, sink, substeps, dotter, eta_thread, thr, call, nops>>

\* the body of the with block raises: the exception is thrown into the
\* generator at its yield, where nothing catches it, so no statement after
\* the yield runs and the exception leaves the with statement
scroll_raise ==
  /\ CanCall /\ Run(0) /\ scroll.kind # "none"
  /\ sink' = sink
  /\ Calls("scroll_raise", <<>>)
  /\ scroll' = NoScroll
  /\ UNCHANGED <<isatty, substeps, dotter, eta_thread, thr>>

\* ------------------------------------------------------- specification
\* TerminalWriter.__init__ with Context.__init__
Constructed ==
  /\ isatty \in BOOLEAN
  /\ sink = NewLineManager_init
  /\ substeps = Substeps_reset
  /\ dotter = 0
  /\ eta_thread = 0
  /\ thr = <<>>
  /\ todo = [a \in {0} |-> <<>>]
  /\ scroll = NoScroll
  /\ nops = 0
  /\ sched = [running |-> 0, preempts |-> 0]

Init ==
  /\ Constructed
  /\ call = [op |-> "init", nl0 |-> TRUE, log0 |-> 0, kind |-> "none"]

Next ==
  \/ \E text \in Texts : box(text)
  \/ \E text \in Texts : msg(text)
  \/ msg_line
  \/ \E text \in Texts : eta(text, 1)
  \/ eta_line
  \/ \E n \in StepCounts : set_substeps(n)
  \/ progress_dot_every_n_seconds
  \/ done
  \/ \E n \in LineCounts, c \in BOOLEAN : scroll_lines(n, c)
  \/ scroll_yield
  \/ \E txt \in PushTexts, w \in Widths : scroll_push(txt, w)
  \/ ScrollOutput_set_lines
  \/ ScrollOutput_move_cursor_up
  \/ scroll_exit
  \/ scroll_end
  \/ scroll_raise
  \/ Dotter_reset
  \/ Dotter_start
  \/ Eta_reset
  \/ EtaThread_stop
  \/ Eta_clear
  \/ Eta_start
  \/ \E a \in Agents : Write_emit(a)
  \/ \E a \in Agents : Write_flag(a)
  \/ \E a \in Agents : Write_load(a)
  \/ \E a \in Agents : Write_store(a)
  \/ \E a \in Agents : NewLine_test(a)
  \/ \E a \in Agents : NewLine_emit(a)
  \/ \E a \in Agents : NewLine_flag(a)
  \/ \E a \in Agents : NewLine_log(a)
  \/ \E a \in Agents : NewLine_clear(a)
  \/ \E a \in Agents : EtaThread_write_blank(a)
  \/ \E a \in Agents : EtaThread_write_set(a)
  \/ \E a \in Agents : EtaThread_write_print(a)
  \/ \E t \in Agents : DotterThread_run(t)
  \/ \E t \in Agents : DotterThread_sleep(t)
  \/ \E t \in Agents : EtaThread_run(t)
  \/ \E t \in Agents : EtaThread_sleep(t)

Spec == Init /\ [][Next]_vars

\* ------------------------------------------------------- fair scheduling
\* a step of agent a inside write, new_line or EtaThread._write
SinkStep(a) ==
  \/ Write_emit(a) \/ Write_flag(a) \/ Write_load(a) \/ Write_store(a)
  \/ NewLine_test(a) \/ NewLine_emit(a) \/ NewLine_flag(a) \/ NewLine_log(a) \/ NewLine_clear(a)
  \/ EtaThread_write_blank(a) \/ EtaThread_write_set(a) \/ EtaThread_write_print(a)

\* a step of thread t: of its run loop or of a write it makes
ThreadStep(t) ==
  /\ t \in Agents /\ t # 0
  /\ \/ SinkStep(t)
     \/ DotterThread_run(t) \/ DotterThread_sleep(t)
     \/ EtaThread_run(t) \/ EtaThread_sleep(t)

\* a step of the main flow inside a public call
MainStep ==
  \/ SinkStep(0)
  \/ msg_line \/ eta_line
  \/ scroll_yield \/ ScrollOutput_set_lines \/ ScrollOutput_move_cursor_up \/ scroll_end
  \/ Dotter_reset \/ Dotter_start
  \/ Eta_reset \/ EtaThread_stop \/ Eta_clear \/ Eta_start

\* The interpreter lets every thread that can run do so again and again: a
\* public call in progress goes on, and so does every started thread (its
\* sleeps end).  Nothing obliges the caller to make a further public call.
Fairness == WF_vars(MainStep) /\ \A t \in 1 .. MaxOps : WF_vars(ThreadStep(t))

\* The calls that start and stop threads, made on a terminal: box, msg, eta,
\* progress_dot_every_n_seconds, done, and scroll_lines with a block that
\* pushes nothing.
InitLive == Init /\ isatty

NextLive ==
  \/ \E text \in Texts : box(text)
  \/ \E text \in Texts : msg(text)
  \/ \E text \in Texts : eta(text, 1)
  \/ progress_dot_every_n_seconds
  \/ done
  \/ scroll_lines(-1, FALSE)
  \/ scroll_yield
  \/ scroll_exit
  \/ scroll_end
  \/ msg_line
  \/ eta_line
  \/ Dotter_reset
  \/ Dotter_start
  \/ Eta_reset
  \/ EtaThread_stop
  \/ Eta_clear
  \/ Eta_start
  \/ \E a \in Agents : SinkStep(a)
  \/ \E t \in Agents : ThreadStep(t)

SpecLive == InitLive /\ [][NextLive]_vars /\ Fairness

\* ---------------------------------------- the sink driven by one caller
\* calls of write and new_line made on the sink in one run
MaxSinkCalls == 4

\* texts given to write
SinkTexts == {<<>>, <<"x">>, colored(<<"y">>)}

\* the frame of a sink call: its name and arguments, the sink before it,
\* and the same of the call before it
SinkFrame(op, force, skip) ==
  [op |-> op, force |-> force, skip |-> skip, before |-> sink,
   prev |-> [op |-> call.op, force |-> call.force, skip |-> call.skip, before |-> call.before]]

\* NewLineManager.write called with nothing else running
sink_write(s) ==
  /\ nops < MaxSinkCalls
  /\ sink' = NewLineManager_write(sink, isatty, s)
  /\ call' = SinkFrame("write", FALSE, FALSE)
  /\ nops' = nops + 1
  /\ UNCHANGED <<isatty, substeps, dotter, eta_thread, thr, todo, scroll, sched>>

\* NewLineManager.new_line called with nothing else running
sink_new_line(force, skip_log) ==
  /\ nops < MaxSinkCalls
  /\ sink' = NewLineManager_new_line(sink, force, skip_log)
  /\ call' = SinkFrame("new_line", force, skip_log)
  /\ nops' = nops + 1
  /\ UNCHANGED <<isatty, substeps, dotter, eta_thread, thr, todo, scroll, sched>>

InitSink ==
  /\ Constructed
  /\ call = [op |-> "init", force |-> FALSE, skip |-> FALSE, before |-> NewLineManager_init,
             prev |-> [op |-> "init", force |-> FALSE, skip |-> FALSE, before |-> NewLineManager_init]]

NextSink ==
  \/ \E s \in SinkTexts : sink_write(s)
  \/ \E force \in BOOLEAN, skip_log \in BOOLEAN : sink_new_line(force, skip_log)

SpecSink == InitSink /\ [][NextSink]_vars

\* ------------------------------------------- Substeps driven by one caller
\* calls of start, reset and str made on the Substeps in one run
MaxSubCalls == 6

\* the frame of a Substeps call: its name, the Substeps before it, what str
\* returned, and how many times str was called since the last start
SubFrame(op, ret, k) == [op |-> op, before |-> substeps, ret |-> ret, k |-> k]

\* Substeps.start
sub_start(n) ==
  /\ nops < MaxSubCalls
  /\ substeps' = Substeps_start(n)
  /\ call' = SubFrame("start", <<>>, 0)
  /\ nops' = nops + 1
  /\ UNCHANGED <<isatty, sink, dotter, eta_thread, thr, todo, scroll, sched>>

\* Substeps.reset
sub_reset ==
  /\ nops < MaxSubCalls
  /\ substeps' = Substeps_reset
  /\ call' = SubFrame("reset", <<>>, 0)
  /\ nops' = nops + 1
  /\ UNCHANGED <<isatty, sink, dotter, eta_thread, thr, todo, scroll, sched>>

\* Substeps.str
sub_str ==
  /\ nops < MaxSubCalls
  /\ substeps' = Substeps_str_next(substeps)
  /\ call' = SubFrame("str", Substeps_str(substeps), call.k + 1)
  /\ nops' = nops + 1
  /\ UNCHANGED <<isatty, sink, dotter, eta_thread, thr, todo, scroll, sched>>

InitSubsteps ==
  /\ Constructed
  /\ call = [op |-> "init", before |-> Substeps_reset, ret |-> <<>>, k |-> 0]

NextSubsteps ==
  \/ \E n \in 1 .. MaxSteps : sub_start(n)
  \/ sub_reset
  \/ sub_str

SpecSubsteps == InitSubsteps /\ [][NextSubsteps]_vars

\* ------------------------- _split_and_break_into_lines driven by one caller
\* calls of _split_and_break_into_lines made in one run
MaxSplitCalls == 1
\* longest text given to it
MaxTextLen == 4
\* widest console
MaxWidth == 3

\* the texts given to it: every string of 'a', 'b' and '\n' up to MaxTextLen
SplitTexts == UNION {[1 .. n -> {"a", "b", NL}] : n \in 0 .. MaxTextLen}

\* the while loop is running
Splitting == call.op = "split" /\ call.i <= Len(call.lines)

\* _split_and_break_into_lines up to its loop: width, lines = txt.split('\n'), i = 0
split_call(txt, width) ==
  /\ nops < MaxSplitCalls /\ ~Splitting
  /\ call' = [op |-> "split", txt |-> txt, width |-> width, lines |-> SplitNL(txt, <<>>), i |-> 1]
  /\ nops' = nops + 1
  /\ UNCHANGED <<isatty, sink, substeps, dotter, eta_thread, thr, todo, scroll, sched>>

\* one iteration of the loop
split_iter ==
  /\ Splitting
  /\ call' = [call EXCEPT !.lines = BreakStep(call.lines, call.i, call.width), !.i = @ + 1]
  /\ UNCHANGED <<isatty, sink, substeps, dotter, eta_thread, thr, todo, scroll, nops, sched>>

InitSplit ==
  /\ Constructed
  /\ call = [op |-> "init", txt |-> <<>>, width |-> 1, lines |-> <<>>, i |-> 1]

NextSplit ==
  \/ \E txt \in SplitTexts, width \in 1 .. MaxWidth : split_call(txt, width)
  \/ split_iter

SpecSplit == InitSplit /\ [][NextSplit]_vars

\* --------------------------------------------------------------- claims
\* thread t writes to the destination in this step
Emits(t) == At(t, "w_emit") /\ sched'.running = t /\ sink'.fd # sink.fd

\* C1: once stop() has returned on a spinner thread (Dotter.reset has set
\* its event), that thread writes nothing more to the destination.
C1_NoSpinnerWriteAfterStop ==
  [][\A t \in DOMAIN thr : (thr[t].kind = "dot" /\ thr[t].stop) => ~Emits(t)]_vars

\* EtaThread.stop has returned on thread t: the event is set and the main
\* flow is past the finished write
StopReturned(t) ==
  /\ thr[t].kind = "eta" /\ thr[t].stop
  /\ eta_thread # t \/ At(0, "e_clear")

\* C2: once stop() has returned on a countdown thread, its finished write
\* was the last write the thread causes: the thread writes nothing more.
C2_FinishedWriteIsLast ==
  [][\A t \in DOMAIN thr : StopReturned(t) => ~Emits(t)]_vars

\* the threads that have not been told to stop
Active == {t \in DOMAIN thr : ~thr[t].stop}

\* C3: at any time at most one background thread exists that has not been
\* told to stop.
C3_AtMostOneActive == Cardinality(Active) <= 1

\* no agent is inside write, new_line or any other call
Quiet == \A a \in Agents : ~Busy(a) \/ At(a, "t_sleep") \/ At(a, "t_check")

RECURSIVE Visible(_)
\* the characters of s that occupy a column: not the escape sequences
\* (ESC up to a final "m" or "A"), not '\r'
Visible(s) ==
  IF s = <<>> THEN <<>>
  ELSE IF Head(s) = ESC
    THEN LET ends == {i \in 2 .. Len(s) : s[i] \in {"m", "A"}}
         IN IF ends = {} THEN <<>>
            ELSE Visible(SubSeq(s, (CHOOSE i \in ends : \A j \in ends : i <= j) + 1, Len(s)))
  ELSE IF Head(s) = CR THEN Visible(Tail(s))
  ELSE <<Head(s)>> \o Visible(Tail(s))

\* nothing that occupies a column has reached the destination since the last '\n'
FreshLine == Visible(LastLine(sink.fd)) = <<>>

\* C4: whenever no write is in progress, the line-start flag is true
\* exactly when nothing printable was emitted since the last '\n'.
C4_FlagIsLineStart == Quiet => (sink.nl <=> FreshLine)

\* msg has returned
MsgReturned == call.op = "msg" /\ Idle

\* C5 as claimed: every call of msg causes exactly one call of the log mirror.
C5_ExactlyOneMirror == MsgReturned => Len(sink.log) = 1

\* C5 as amended: a call of msg mirrors at most one line; exactly one when
\* the sink was not at line start when msg was called, and none when it was
\* at line start and no animation was ever started.
C5_AtMostOneMirror ==
  MsgReturned =>
    /\ Len(sink.log) <= 1
    /\ ~call.nl0 => Len(sink.log) = 1
    /\ (call.nl0 /\ thr = <<>>) => Len(sink.log) = 0

\* msg has returned from a call made while an animation was running, with
\* its one mirrored line
C5_Witness == MsgReturned /\ thr # <<>> /\ ~call.nl0 /\ Len(sink.log) = 1

\* the characters of s
Chars(s) == {s[i] : i \in DOMAIN s}

\* C6: every string handed to the log mirror is one completed, stripped
\* line: it holds no '\n' and no escape character.
C6_MirroredIsOneLine ==
  \A i \in DOMAIN sink.log : NL \notin Chars(sink.log[i]) /\ ESC \notin Chars(sink.log[i])

\* C7: in a session of the redrawing scroller no push and no exit step
\* calls the log mirror.
C7_RedrawNotMirrored ==
  (call.op \in {"push", "scroll_exit"} /\ call.kind = "scroll") => Len(sink.log) = call.log0

\* C10: once done() has returned (and until the next public call) the
\* substeps are inactive, neither manager holds a thread, and the sink is
\* at line start.
C10_AfterDone ==
  (call.op = "done" /\ Idle) =>
    /\ substeps = Substeps_reset
    /\ dotter = 0 /\ eta_thread = 0
    /\ sink.nl

\* the call before the last one
Prev == call.prev

\* the last two calls were new_line() without force, the first one made
\* away from line start and mirrored
TwoNewLines ==
  /\ call.op = "new_line" /\ ~call.force
  /\ Prev.op = "new_line" /\ ~Prev.force /\ ~Prev.skip
  /\ ~Prev.before.nl

\* C8: new_line() without force is idempotent: from a sink away from line
\* start two calls in a row emit one '\n' and mirror one line between them,
\* and a call made at line start changes nothing.
C8_NewLineIdempotent ==
  /\ TwoNewLines =>
       /\ sink.fd = Prev.before.fd \o <<NL>>
       /\ Len(sink.log) = Len(Prev.before.log) + 1
       /\ sink = call.before
  /\ (call.op = "new_line" /\ ~call.force /\ call.before.nl) => sink = call.before

\* two new_line() calls in a row were made after a write
C8_Witness == TwoNewLines /\ Prev.before.line # <<>>

\* the label str is to return on its k-th call after start(n)
Label(k, n) == <<"(">> \o Str(k) \o <<"/">> \o Str(n) \o <<")", SP>>

\* C9: after start(n), n >= 1, the k-th call of str returns '(k/n) ' and
\* adds 1 to current for k = 1..n; every later call, and every call in the
\* inactive state, returns '' and changes nothing.
C9_SubstepLabels ==
  call.op = "str" =>
    LET b == call.before
    IN IF b.steps >= 1 /\ call.k <= b.steps
         THEN /\ strip_ansi(call.ret) = Label(call.k, b.steps)
              /\ b.current = call.k
              /\ substeps = [b EXCEPT !.current = call.k + 1]
         ELSE /\ call.ret = <<>>
              /\ substeps = b

\* str has returned every label of a start(n), n >= 2, and then ''
C9_Witness ==
  /\ call.op = "str" /\ call.before.steps >= 2
  /\ call.k = call.before.steps + 1 /\ call.ret = <<>>

\* C11 as claimed: a scroll_lines block of the redrawing scroller is left
\* only by the last statement of the exit step (after move to top, blank
\* every row, move to top, new_line have run), also when its body raises.
C11_ExitRunsOnEveryWayOut ==
  [][(scroll.kind = "scroll" /\ scroll'.kind = "none") => At(0, "sc_end")]_vars

\* ---------------------------------------------------- a simulated screen
\* A screen is [rows, r, c]: the rows of characters, the cursor's row
\* (from 1) and column (from 0).
NewScreen == [rows |-> <<<<>>>>, r |-> 1, c |-> 0]

\* row with character ch put at column c
PutChar(row, c, ch) ==
  LET padded == row \o Spaces(c + 1 - Len(row))
  IN [padded EXCEPT ![c + 1] = ch]

\* index of the first character of fd at or after i that ends an escape
\* sequence ("m" or "A"), 0 when there is none
RECURSIVE EscEnd(_, _)
EscEnd(fd, i) ==
  IF i > Len(fd) THEN 0
  ELSE IF fd[i] \in {"m", "A"} THEN i
  ELSE EscEnd(fd, i + 1)

\* the number written in the digits fd[i..j]
RECURSIVE Num(_, _, _)
Num(fd, i, j) ==
  IF j < i THEN 0
  ELSE 10 * Num(fd, i, j - 1) + (CHOOSE d \in 0 .. 9 : Digit[d + 1] = fd[j])

\* the screen scr after the terminal has received fd[i..]: a printable
\* character is put at the cursor, which moves right; '\n' moves to column
\* 0 of the next row; '\r' to column 0; ESC [ n A moves n rows up;
\* ESC [ n m changes nothing on the grid
RECURSIVE Replay(_, _, _)
Replay(fd, i, scr) ==
  IF i > Len(fd) THEN scr
  ELSE IF fd[i] = NL
    THEN Replay(fd, i + 1,
                [rows |-> IF scr.r = Len(scr.rows) THEN Append(scr.rows, <<>>) ELSE scr.rows,
                 r |-> scr.r + 1, c |-> 0])
  ELSE IF fd[i] = CR THEN Replay(fd, i + 1, [scr EXCEPT !.c = 0])
  ELSE IF fd[i] = ESC
    THEN LET e == EscEnd(fd, i + 1)
         IN IF e = 0 THEN scr
            ELSE IF fd[e] = "A"
              THEN LET n == Num(fd, i + 2, e - 1)
                   IN Replay(fd, e + 1, [scr EXCEPT !.r = IF @ > n THEN @ - n ELSE 1])
              ELSE Replay(fd, e + 1, scr)
  ELSE Replay(fd, i + 1,
              [scr EXCEPT !.rows[scr.r] = PutChar(@, scr.c, fd[i]), !.c = @ + 1])

\* the screen after everything the destination has received
Screen == Replay(sink.fd, 1, NewScreen)

\* the screen as it was when start yielded
EntryScreen == Replay(SubSeq(sink.fd, 1, scroll.entry), 1, NewScreen)

RECURSIVE RTrim(_)
\* row without its trailing spaces
RTrim(row) ==
  IF row = <<>> THEN <<>>
  ELSE IF row[Len(row)] = SP THEN RTrim(SubSeq(row, 1, Len(row) - 1))
  ELSE row

\* row k of screen scr, blank when the screen has no such row
Row(scr, k) == IF k \in DOMAIN scr.rows THEN RTrim(scr.rows[k]) ELSE <<>>

\* the exit step of a redrawing session opened with
\* clear_and_overwrite_after is complete
ClearedExit == At(0, "sc_end") /\ scroll.kind = "scroll" /\ scroll.clear

\* C12: when a session of the redrawing scroller opened with
\* clear_and_overwrite_after has run its exit step, the cursor is where it
\* was when the session was entered, and the entry row and every row below
\* it show nothing they did not show then (no residue of the region).
C12_ExitRestoresScreen ==
  ClearedExit =>
    /\ Screen.r = EntryScreen.r
    /\ Screen.c = EntryScreen.c
    /\ \A k \in EntryScreen.r .. Len(Screen.rows) : Row(Screen, k) = Row(EntryScreen, k)

\* C12 holds in every run in which no animation thread was started
C12_WithoutAnimation == thr = <<>> => C12_ExitRestoresScreen

\* a push on the redrawing scroller has returned
PushReturned == call.op = "push" /\ Idle /\ scroll.kind = "scroll"

\* the smaller of two numbers
Min(a, b) == IF a < b THEN a ELSE b

\* C15: after every push on the redrawing scroller the buffer holds the
\* last min(line_count, k) of the k wrapped lines pushed so far, in push
\* order; its length never exceeds line_count and never decreases in a
\* session.
C15_BufferIsTail ==
  /\ [](PushReturned =>
          LET k == Len(scroll.pushed)
              m == Min(scroll.line_count, k)
          IN /\ Len(scroll.lines) = m
             /\ \A i \in 1 .. m : scroll.lines[i] = scroll.pushed[k - m + i])
  /\ [](scroll.kind = "scroll" => Len(scroll.lines) <= scroll.line_count)
  /\ [][(scroll.kind = "scroll" /\ scroll'.kind = "scroll")
          => Len(scroll'.lines) >= Len(scroll.lines)]_vars

\* two pushes have returned and the buffer has dropped a line
C15_Witness ==
  PushReturned /\ scroll.pushes = 2 /\ Len(scroll.pushed) > Len(scroll.lines)

\* C16: after each push on the redrawing scroller the rows from the entry
\* row down show exactly the buffer's lines, the cursor is at column 0 of
\* the row below them, and every cursor-up sequence a session writes names
\* the length the buffer has at that time.
C16_RegionShowsBuffer ==
  /\ [](PushReturned =>
          LET top == EntryScreen.r
              n == Len(scroll.lines)
          IN /\ \A i \in 1 .. n : Row(Screen, top + i - 1) = scroll.lines[i]
             /\ \A k \in top + n .. Len(Screen.rows) : Row(Screen, k) = <<>>
             /\ Screen.r = top + n /\ Screen.c = 0)
  /\ [][(At(0, "f_emit") /\ sink'.fd # sink.fd)
          => Cur(0).s = <<ESC, "[">> \o Str(Len(scroll.lines)) \o <<"A">>]_vars

\* the state part of C16 holds in every run in which no animation thread
\* was started
C16_WithoutAnimation ==
  (thr = <<>> /\ PushReturned) =>
    LET top == EntryScreen.r
        n == Len(scroll.lines)
    IN /\ \A i \in 1 .. n : Row(Screen, top + i - 1) = scroll.lines[i]
       /\ \A k \in top + n .. Len(Screen.rows) : Row(Screen, k) = <<>>
       /\ Screen.r = top + n /\ Screen.c = 0

\* a call of the yielded function has returned
AnyPushReturned == call.op = "push" /\ Idle /\ scroll.kind # "none"

\* what the destination received since the push began
SincePush == SubSeq(sink.fd, call.fd0 + 1, Len(sink.fd))

\* s holds t as a block of consecutive characters
Holds(s, t) == \E i \in 0 .. Len(s) - Len(t) : SubSeq(s, i + 1, i + Len(t)) = t

\* the push dropped its text: none of its characters reached the
\* destination, and nothing was mirrored
Dropped ==
  /\ Chars(call.txt) \cap Chars(SincePush) = {}
  /\ Len(sink.log) = call.log0

\* the push wrote its text followed by '\n' at once, and no cursor movement
PassedThrough ==
  /\ Holds(SincePush, call.txt \o <<NL>>)
  /\ "A" \notin Chars(SincePush)

BeforeLine(ss) == {b \in {ss, [ss EXCEPT !.current = @ - 1]} : Substeps_str_next(b) = ss}

RECURSIVE Chunks(_, _)
\* line cut into consecutive pieces of w characters, the last one possibly
\* shorter; a line of at most w characters is one piece
Chunks(line, w) ==
  IF Len(line) <= w THEN <<line>>
  ELSE <<SubSeq(line, 1, w)>> \o Chunks(SubSeq(line, w + 1, Len(line)), w)

RECURSIVE ChunkedLines(_, _, _)
\* the pieces of every '\n'-separated line of txt, in order; acc is the
\* line being read
ChunkedLines(txt, acc, w) ==
  IF txt = <<>> THEN Chunks(acc, w)
  ELSE IF Head(txt) = NL THEN Chunks(acc, w) \o ChunkedLines(Tail(txt), <<>>, w)
  ELSE ChunkedLines(Tail(txt), Append(acc, Head(txt)), w)

\* _split_and_break_into_lines has left its loop
SplitReturned == call.op = "split" /\ ~Splitting

\* C17: for every text and every width w >= 1 the loop ends after at most
\* one iteration per resulting piece, and the result is the text's
\* '\n'-separated lines, each replaced in place by its consecutive pieces of
\* w characters; no piece is longer than w.
C17_SplitIsChunking ==
  /\ call.op = "split" => call.i <= Len(call.txt) + 2
  /\ SplitReturned =>
       /\ call.lines = ChunkedLines(call.txt, <<>>, call.width)
       /\ \A k \in DOMAIN call.lines : Len(call.lines[k]) <= call.width
       /\ call.lines = split_and_break_into_lines(call.txt, call.width)

\* a text of two lines has been split, its first line into two pieces, the
\* second one shorter
C17_Witness ==
  /\ SplitReturned /\ call.width = 2 /\ call.txt = <<"a", "b", "a", NL>>
  /\ call.lines = <<<<"a", "b">>, <<"a">>, <<>>>>

\* C18: whenever no call of write or new_line is in progress and the sink
\* is at line start, the pending line is empty: nothing written stays in
\* the buffer across a '\n', also when a thread's write interleaves with the
\* main flow's new_line.
C18_BufferEmptyAtLineStart == (Quiet /\ sink.nl) => sink.line = <<>>

\* thread t runs the test of its loop in this step
LoopTest(t) == At(t, "t_check") /\ sched'.running = t /\ todo'[t] # todo[t]

\* C19: once the stop event of a thread is set it stays set, and every test
\* of the loop made after that leaves the loop: the thread starts no write
\* cycle after the event was set, so it does at most the one cycle whose
\* test had passed before.
C19_NoCycleStartsAfterStop ==
  [][\A t \in DOMAIN thr :
       thr[t].stop => (thr'[t].stop /\ (LoopTest(t) => todo'[t] = <<>>))]_vars

\* a thread has just written to the destination with its stop event set:
\* the cycle whose test passed before the event was set
C19_Witness ==
  \E t \in DOMAIN thr : thr[t].stop /\ At(t, "w_flag") /\ sched.running = t

\* a call that resets both managers (box, msg, done, scroll_lines) has returned
ResetReturned == call.op \in {"box", "msg", "done", "scroll_lines"} /\ Idle

\* C20: when box, msg, done or scroll_lines has returned every thread
\* started so far has its stop event set, and when eta has returned every
\* thread but the one it started; and, under fair scheduling, every thread
\* whose stop event is set eventually returns from run.
C20_StoppedThreadsTerminate ==
  /\ [](ResetReturned => \A t \in DOMAIN thr : thr[t].stop)
  /\ []((call.op = "eta" /\ Idle) => \A t \in DOMAIN thr : t = eta_thread \/ thr[t].stop)
  /\ \A t \in 1 .. MaxOps :
       (t \in DOMAIN thr /\ thr[t].stop) ~> (t \in DOMAIN thr /\ ~Busy(t))

\* done has returned after a spinner and a countdown were started, and both
\* threads have returned from run
C20_Witness ==
  /\ call.op = "done" /\ Idle
  /\ \E t, u \in DOMAIN thr : thr[t].kind = "dot" /\ thr[u].kind = "eta"
  /\ \A t \in DOMAIN thr : thr[t].stop /\ ~Busy(t)

====
